---------------------------- MODULE Spec2Model ----------------------------
(***************************************************************************)
(* Navigation table parsing (src/navigation_table.py).                     *)
(*                                                                         *)
(* A string is a sequence of one-character strings.  The regular           *)
(* expressions of the source are sequences of items (a character class, a  *)
(* quantifier, a capture group number) and are matched by a backtracking   *)
(* matcher with the priorities of Python's re module: a greedy quantifier  *)
(* tries the longest run first, a lazy one the shortest first, and the     *)
(* first complete match found is the match.                                *)
(***************************************************************************)
EXTENDS Naturals, Sequences, FiniteSets

(***************************************************************************)
(* Characters.  The alphabet is a finite part of Unicode holding at least  *)
(* one character of every class the patterns distinguish.                  *)
(***************************************************************************)
LowerLetters == {"l", "e", "v", "p", "a", "t", "h", "n", "i", "k", "b", "x", "y"}

UpperOf ==
  [c \in LowerLetters |->
     CASE c = "l" -> "L" [] c = "e" -> "E" [] c = "v" -> "V" [] c = "p" -> "P"
       [] c = "a" -> "A" [] c = "t" -> "T" [] c = "h" -> "H" [] c = "n" -> "N"
       [] c = "i" -> "I" [] c = "k" -> "K" [] c = "b" -> "B" [] c = "x" -> "X"
       [] c = "y" -> "Y"]

UpperLetters == {UpperOf[c] : c \in LowerLetters}

Digit == {"0", "1", "2"}

\* \s: the whitespace characters of the alphabet.
Space == {" ", "\t", "\n", "\r", "\f"}

\* \w: letters, digits and the underscore.
Word == LowerLetters \cup UpperLetters \cup Digit \cup {"_"}

\* string.punctuation, the part of it in the alphabet.
Punctuation == {"|", "-", "/", "[", "]", "(", ")", ".", "_", "!", "'"}

\* [\s\S]: any character at all.
AnyChar == Space \cup Word \cup Punctuation

\* The characters re.IGNORECASE makes equivalent to those of a class.
CaseClosure(cls) ==
  cls \cup {UpperOf[c] : c \in cls \cap LowerLetters}
      \cup {c \in LowerLetters : UpperOf[c] \in cls}

(***************************************************************************)
(* Regular expressions.                                                    *)
(***************************************************************************)
One(cls)      == <<[cls |-> cls, q |-> "one",      g |-> 0]>>
Star(cls)     == <<[cls |-> cls, q |-> "star",     g |-> 0]>>
Plus(cls)     == <<[cls |-> cls, q |-> "plus",     g |-> 0]>>
LazyPlus(cls) == <<[cls |-> cls, q |-> "lazyplus", g |-> 0]>>
Opt(cls)      == <<[cls |-> cls, q |-> "opt",      g |-> 0]>>

\* A literal word: one item per character.
Literal(w) == [i \in 1..Len(w) |-> [cls |-> {w[i]}, q |-> "one", g |-> 0]]

\* ( ... ) around a regular expression of one item: capture group n.
Group(n, re) == [i \in 1..Len(re) |-> [re[i] EXCEPT !.g = n]]

\* re.compile(regex, re.IGNORECASE)
IgnoreCase(re) == [i \in 1..Len(re) |-> [re[i] EXCEPT !.cls = CaseClosure(@)]]

\* regex * n
RECURSIVE Repeat(_, _)
Repeat(re, n) == IF n = 0 THEN <<>> ELSE re \o Repeat(re, n - 1)

MinCount(q) == IF q \in {"star", "opt"} THEN 0 ELSE 1

IsLazy(q) == q = "lazyplus"

NoCaps == [g \in 1..4 |-> <<0, 0>>]

NoMatch == [ok |-> FALSE, end |-> 0, caps |-> NoCaps]

\* The number of characters of cls that follow position pos (the number of
\* characters consumed so far), at most max: the n where the run stops, all
\* characters before it being of cls.
RunLength(cls, s, pos, max) ==
  LET top == IF Len(s) - pos < max THEN Len(s) - pos ELSE max
  IN  CHOOSE n \in 0..top :
        /\ n = top \/ s[pos + n + 1] \notin cls
        /\ \A j \in 1..n : s[pos + j] \in cls

\* The match of items i.. of re against s from position pos, or NoMatch.
\* Item i takes k characters, lo <= k <= hi, and the rest of re is matched
\* after them.  The counts are tried in the quantifier's order, the r-th try
\* (from 0) being k = hi - r for a greedy quantifier and k = lo + r for a lazy
\* one, and the first try that lets the rest match is the match.  Tries(.., a, b)
\* is the outcome of tries a..b: that of try a if it matched, else that of the
\* first half of the others if it matched, else that of the second half.
RECURSIVE MatchFrom(_, _, _, _, _)
RECURSIVE Tries(_, _, _, _, _, _, _, _, _)
MatchFrom(re, s, i, pos, caps) ==
  IF i > Len(re)
    THEN [ok |-> TRUE, end |-> pos, caps |-> caps]
    ELSE LET lo == MinCount(re[i].q)
             hi == RunLength(re[i].cls, s, pos,
                             IF re[i].q \in {"one", "opt"} THEN 1 ELSE Len(s))
         IN  IF hi < lo THEN NoMatch
             ELSE Tries(re, s, i, pos, caps, lo, hi, 0, hi - lo)

Tries(re, s, i, pos, caps, lo, hi, a, b) ==
  LET k == IF IsLazy(re[i].q) THEN lo + a ELSE hi - a
      first == MatchFrom(re, s, i + 1, pos + k,
                         IF re[i].g = 0 THEN caps
                         ELSE [caps EXCEPT ![re[i].g] = <<pos, pos + k>>])
      mid == (a + 1 + b) \div 2
      half == Tries(re, s, i, pos, caps, lo, hi, a + 1, mid)
  IN  IF a = b \/ first.ok THEN first
      ELSE IF mid = b \/ half.ok THEN half
      ELSE Tries(re, s, i, pos, caps, lo, hi, mid + 1, b)

\* pattern.match(s): anchored at the start of s, not at its end.
re_match(pattern, s) == MatchFrom(pattern, s, 1, 0, NoCaps)

\* match.group(n); group 0 is the whole match.
group(m, s, n) ==
  IF n = 0 THEN SubSeq(s, 1, m.end)
  ELSE SubSeq(s, m.caps[n][1] + 1, m.caps[n][2])

(***************************************************************************)
(* The patterns of the source.                                             *)
(***************************************************************************)
_WHITESPACE == Star(Space)

_TABLE_HEADER_REGEX ==
  _WHITESPACE \o One({"|"})
    \o _WHITESPACE \o Literal(<<"l", "e", "v", "e", "l">>) \o _WHITESPACE \o One({"|"})
    \o _WHITESPACE \o Literal(<<"p", "a", "t", "h">>) \o _WHITESPACE \o One({"|"})
    \o _WHITESPACE \o Literal(<<"n", "a", "v", "l", "i", "n", "k">>) \o _WHITESPACE
    \o One({"|"}) \o _WHITESPACE

_TABLE_HEADER_PATTERN == IgnoreCase(_TABLE_HEADER_REGEX)

_TABLE_PATTERN ==
  IgnoreCase(Star(AnyChar) \o _TABLE_HEADER_REGEX \o Star(AnyChar) \o Opt({"|"}))

_FILLER_ROW_REGEX_COLUMN == _WHITESPACE \o Plus({"-"}) \o _WHITESPACE \o One({"|"})

_FILLER_ROW_PATTERN ==
  _WHITESPACE \o One({"|"}) \o Repeat(_FILLER_ROW_REGEX_COLUMN, 3) \o _WHITESPACE

_LEVEL_REGEX == _WHITESPACE \o Group(1, Plus(Digit)) \o _WHITESPACE

_PATH_REGEX == _WHITESPACE \o Group(2, Plus(Word \cup {"-"})) \o _WHITESPACE

_NAVLINK_TITLE_REGEX == LazyPlus(Word \cup {"-", " "} \cup Punctuation)

_NAVLINK_LINK_REGEX == Star(Word \cup {"/", "-"})

_NAVLINK_REGEX ==
  _WHITESPACE \o One({"["}) \o _WHITESPACE \o Group(3, _NAVLINK_TITLE_REGEX)
    \o _WHITESPACE \o One({"]"}) \o _WHITESPACE
    \o One({"("}) \o _WHITESPACE \o Group(4, _NAVLINK_LINK_REGEX) \o _WHITESPACE
    \o One({")"}) \o _WHITESPACE

_ROW_PATTERN ==
  _WHITESPACE \o One({"|"}) \o _LEVEL_REGEX \o One({"|"}) \o _PATH_REGEX \o One({"|"})
    \o _NAVLINK_REGEX \o One({"|"})

(***************************************************************************)
(* Built-ins the module calls.                                             *)
(***************************************************************************)
\* An optional value: None, or the value wrapped.
None == <<>>

Some(v) == <<v>>

DigitValue(c) == CASE c = "0" -> 0 [] c = "1" -> 1 [] c = "2" -> 2

\* int(s) of a run of decimal digits: leading zeros do not count.
RECURSIVE int(_)
int(s) ==
  IF s = <<>> THEN 0
  ELSE 10 * int(SubSeq(s, 1, Len(s) - 1)) + DigitValue(s[Len(s)])

\* The characters str.splitlines() breaks a line at; "\r\n" is one break.
LineBoundary == {"\n", "\r", "\f"}

\* The positions of s where a line break starts.
BreakStarts(s) ==
  {i \in 1..Len(s) :
     /\ s[i] \in LineBoundary
     /\ ~(s[i] = "\n" /\ i > 1 /\ s[i - 1] = "\r")}

\* The lines of s from position start on.
RECURSIVE LinesFrom(_, _)
LinesFrom(s, start) ==
  LET ahead == {i \in BreakStarts(s) : i >= start}
      b == CHOOSE i \in ahead : \A j \in ahead : i <= j
  IN  IF ahead = {}
        THEN IF start > Len(s) THEN <<>> ELSE <<SubSeq(s, start, Len(s))>>
        ELSE <<SubSeq(s, start, b - 1)>>
               \o LinesFrom(s, IF s[b] = "\r" /\ b < Len(s) /\ s[b + 1] = "\n"
                                 THEN b + 2 ELSE b + 1)

\* str.splitlines(): the lines without their line breaks.
splitlines(s) == LinesFrom(s, 1)

\* One character as repr() writes it inside the quotes.
ReprChar(c) ==
  CASE c = "\n" -> <<"\\", "n">>
    [] c = "\t" -> <<"\\", "t">>
    [] c = "\r" -> <<"\\", "r">>
    [] c = "\f" -> <<"\\", "x", "0", "c">>
    [] OTHER -> <<c>>

RECURSIVE ReprBody(_)
ReprBody(s) == IF s = <<>> THEN <<>> ELSE ReprChar(Head(s)) \o ReprBody(Tail(s))

\* repr(s): quoted, in double quotes when s holds a single quote (the alphabet
\* has no double quote and no backslash), control characters escaped.
repr(s) ==
  LET quote == IF \E i \in 1..Len(s) : s[i] = "'" THEN "\"" ELSE "'"
  IN  <<quote>> \o ReprBody(s) \o <<quote>>

(***************************************************************************)
(* The functions of the source.                                            *)
(***************************************************************************)
\* Mutant: a line that matches the row pattern is skipped like the others.
_filter_line_DropsRows(line) == TRUE

\* Mutant: every line that is neither header nor filler is let through.
_filter_line_ForwardsNoise(line) ==
  IF re_match(_TABLE_HEADER_PATTERN, line).ok THEN TRUE
  ELSE IF re_match(_FILLER_ROW_PATTERN, line).ok THEN TRUE
  ELSE FALSE

\* Whether a line is to be skipped (True) or parsed (False).
_filter_line(line) ==
  IF re_match(_TABLE_HEADER_PATTERN, line).ok THEN TRUE
  ELSE IF re_match(_FILLER_ROW_PATTERN, line).ok THEN TRUE
  ELSE IF re_match(_ROW_PATTERN, line).ok THEN FALSE
  ELSE TRUE

Navlink(title, link) == [title |-> title, link |-> link]

TableRow(level, path, navlink) == [level |-> level, path |-> path, navlink |-> navlink]

MessagePrefix ==
  <<"I", "n", "v", "a", "l", "i", "d", " ", "t", "a", "b", "l", "e", " ",
    "r", "o", "w", ",", " ", "l", "i", "n", "e", "=">>

\* Mutant: the message does not say which line.
ErrorMessageWithoutLine(line) == MessagePrefix

\* f"Invalid table row, {line=!r}"
ErrorMessage(line) == MessagePrefix \o repr(line)

\* The outcome of a call: a value returned, or an exception raised.
Returned(v) ==
  [raised |-> FALSE, exception |-> "", value |-> Some(v), message |-> None]

Raised(exc, msg) ==
  [raised |-> TRUE, exception |-> exc, value |-> None, message |-> Some(msg)]

\* Mutant: the empty link is kept as a string.
OrNoneKeepsEmpty(s) == Some(s)

\* navlink_link or None
OrNone(s) == IF s = <<>> THEN None ELSE Some(s)

\* Mutant: the title is read from the group of the path.
_line_to_row_TitleFromPath(line) ==
  LET match == re_match(_ROW_PATTERN, line)
  IN  IF ~match.ok
        THEN Raised("NavigationTableParseError", ErrorMessage(line))
        ELSE Returned(TableRow(int(group(match, line, 1)),
                               group(match, line, 2),
                               Navlink(group(match, line, 2),
                                       OrNone(group(match, line, 4)))))

\* The outcome of _line_to_row(line): the row returned, or
\* NavigationTableParseError raised with its message.
_line_to_row(line) ==
  LET match == re_match(_ROW_PATTERN, line)
  IN  IF ~match.ok
        THEN Raised("NavigationTableParseError", ErrorMessage(line))
        ELSE Returned(TableRow(int(group(match, line, 1)),
                               group(match, line, 2),
                               Navlink(group(match, line, 3),
                                       OrNone(group(match, line, 4)))))

\* Mutant: the page is split whether it has a table or not.
TableLinesWithoutHeaderCheck(page) == splitlines(page)

\* Mutant: the table is taken to begin at the header, as re.search would find
\* it, and not at the start of the page.
TableLinesFromHeader(page) ==
  LET starts == {k \in 0..Len(page) :
                   MatchFrom(_TABLE_HEADER_PATTERN, page, 1, k, NoCaps).ok}
      k0 == CHOOSE k \in starts : \A j \in starts : k <= j
  IN  IF starts = {} THEN <<>> ELSE splitlines(SubSeq(page, k0 + 1, Len(page)))

\* The lines the iterator from_page returns runs over: none when the page has
\* no table, else the lines of the matched text.
TableLines(page) ==
  LET match == re_match(_TABLE_PATTERN, page)
  IN  IF ~match.ok THEN <<>> ELSE splitlines(group(match, page, 0))

\* Mutant: the iteration ends at the first line _filter_line rejects.
NextUnfilteredStopsAtNoise(ls, i) ==
  IF i >= Len(ls) THEN Len(ls) + 1
  ELSE IF ~_filter_line(ls[i + 1]) THEN i + 1
  ELSE Len(ls) + 1

\* The index of the first line after index i that _filter_line lets through,
\* or Len(ls) + 1 when there is none.
RECURSIVE NextUnfiltered(_, _)
NextUnfiltered(ls, i) ==
  IF i >= Len(ls) THEN Len(ls) + 1
  ELSE IF ~_filter_line(ls[i + 1]) THEN i + 1
  ELSE NextUnfiltered(ls, i + 1)

\* list(rows): the outcomes of consuming, to its end, the iterator over the
\* lines ls that has consumed i of them.
RECURSIVE Drain(_, _)
Drain(ls, i) ==
  LET j == NextUnfiltered(ls, i)
  IN  IF j > Len(ls) THEN <<>> ELSE <<_line_to_row(ls[j])>> \o Drain(ls, j)

\* list(from_page(page))
list_from_page(page) == Drain(TableLines(page), 0)

(***************************************************************************)
(* Pages.  A page is a list of lines joined by a line break.               *)
(***************************************************************************)
MaxBody == 2

MaxStops == 2

HeaderLine ==
  <<"|", "L", "e", "v", "e", "l", "|", "P", "a", "t", "h", "|",
    "N", "a", "v", "l", "i", "n", "k", "|">>

FillerLine == <<"|", "-", "|", "-", "-", "|", "-", "|">>

RowLineA == <<"|", "1", "|", "a", "|", "[", "x", "]", "(", ")", "|">>

RowLineB ==
  <<"|", "0", "2", " ", "|", "b", "-", "a", "|", " ", "[", "x", " ", "y", "]",
    "(", "a", "/", "b", ")", "|">>

ProseLine == <<"a", " ", "b", ".">>

BlankLine == <<>>

\* Shaped like a row, but "." is no character of a link.
MalformedLine ==
  <<"|", "1", "|", "a", "|", "[", "x", "]", "(", "a", ".", "b", ")", "|">>

\* How a page begins: with no table, with the header and the filler, with a
\* first row after them, with a row before the table, with prose before a
\* header that no filler follows.
PageHeads ==
  {<<>>, <<HeaderLine, FillerLine>>, <<HeaderLine, FillerLine, RowLineA>>,
   <<RowLineA, HeaderLine, FillerLine>>, <<ProseLine, HeaderLine>>}

\* The lines that follow: rows and noise.
BodyLines == {RowLineA, RowLineB, ProseLine, BlankLine, MalformedLine}

LineBreaks == {<<"\n">>, <<"\r", "\n">>}

RECURSIVE SeqsUpTo(_, _)
SeqsUpTo(S, n) ==
  IF n = 0 THEN {<<>>}
  ELSE LET shorter == SeqsUpTo(S, n - 1)
       IN  shorter \cup {Append(q, e) : q \in {r \in shorter : Len(r) = n - 1}, e \in S}

\* The lines joined by the line break sep, as sep.join(lines) does.
RECURSIVE Join(_, _)
Join(ls, sep) ==
  IF ls = <<>> THEN <<>>
  ELSE IF Len(ls) = 1 THEN ls[1]
  ELSE ls[1] \o sep \o Join(Tail(ls), sep)

(***************************************************************************)
(* Row lines.  A row line is written from the contents of its four cells   *)
(* and the number of spaces at each of the twelve places where the row     *)
(* grammar allows whitespace.                                              *)
(***************************************************************************)
MaxPad == 2

Levels == {<<"1">>, <<"0", "1">>, <<"2", "0">>}

Paths == {<<"a">>, <<"b", "-", "a">>}

Titles == {<<"x">>, <<"x", " ", "y">>, <<"x", "]", "(", "y">>, <<" ">>}

Links == {<<>>, <<"a", "/", "b">>}

Cells == [level : Levels, path : Paths, title : Titles, link : Links]

NoCells == [level |-> <<>>, path |-> <<>>, title |-> <<>>, link |-> <<>>]

PadPlaces == 1..12

Spaces(n) == [i \in 1..n |-> " "]

Render(c, pad) ==
  Spaces(pad[1]) \o <<"|">> \o Spaces(pad[2]) \o c.level \o Spaces(pad[3])
    \o <<"|">> \o Spaces(pad[4]) \o c.path \o Spaces(pad[5])
    \o <<"|">> \o Spaces(pad[6]) \o <<"[">> \o Spaces(pad[7]) \o c.title
    \o Spaces(pad[8]) \o <<"]">> \o Spaces(pad[9]) \o <<"(">> \o Spaces(pad[10])
    \o c.link \o Spaces(pad[11]) \o <<")">> \o Spaces(pad[12]) \o <<"|">>

NoPad == [p \in PadPlaces |-> 0]

EvenPad(n) == [p \in PadPlaces |-> n]

PadAt(q, n) == [p \in PadPlaces |-> IF p = q THEN n ELSE 0]

AddPad(a, b) == [p \in PadPlaces |-> a[p] + b[p]]

BasePads == {NoPad, EvenPad(1)}

ExtraPads ==
  {EvenPad(n) : n \in 1..MaxPad} \cup {PadAt(q, n) : q \in PadPlaces, n \in 1..MaxPad}

\* Lines that break the row grammar, each in one way: a blank line, prose, a
\* link with a character that is not allowed, a level that is no number, no
\* closing pipe, an empty path, an empty title, a header, a filler, a link
\* with a quote after a tab, a cell cut by a line break, a plain third cell.
BrokenLines ==
  {BlankLine, ProseLine, MalformedLine,
   <<"|", "x", "|", "a", "|", "[", "x", "]", "(", ")", "|">>,
   <<"|", "1", "|", "a", "|", "[", "x", "]", "(", ")">>,
   <<"|", "1", "|", "|", "[", "x", "]", "(", ")", "|">>,
   <<"|", "1", "|", "a", "|", "[", "]", "(", ")", "|">>,
   HeaderLine, FillerLine,
   <<"|", "1", "|", "a", "|", "[", "x", "]", "\t", "(", "'", ")", "|">>,
   <<"|", "1", "|", "a", "\n", "|", "[", "\f", "x", "|">>,
   <<"|", "1", "|", "a", "|", "x", "|">>}

(***************************************************************************)
(* The state.  Two callers are modelled: one calls from_page on a page and *)
(* consumes the iterator it returns (Spec); the other calls _line_to_row   *)
(* on a line and on a second line (SpecRow).                               *)
(***************************************************************************)
VARIABLES
  pieces,       \* the lines the page was written from
  linebreak,    \* the line break they were joined by
  page,         \* the page text
  pc,           \* "start": from_page not called; "open": the iterator is live;
                \* "exhausted": it has stopped; "raised": it ended in an error
  lines,        \* the lines the iterator runs over
  idx,          \* how many of them it has consumed
  out,          \* the rows the consumer has received, in order
  parsed,       \* how many times _line_to_row has been called for the iterator
  requests,     \* how many times the consumer has asked for the next row
  stops,        \* how many of those requests ended in StopIteration
  error,        \* the message of the error the iterator raised, if any
  kind,         \* how the two lines are related: "padded", "pair", "broken"
  cells,        \* the cell contents line was written from
  otherCells,   \* the cell contents other was written from
  line,         \* the first argument of _line_to_row
  other,        \* the second argument of _line_to_row
  result,       \* the outcome of _line_to_row(line), once called
  otherResult   \* the outcome of _line_to_row(other), once called

pageVars ==
  <<pieces, linebreak, page, pc, lines, idx, out, parsed, requests, stops, error>>

rowVars == <<kind, cells, otherCells, line, other, result, otherResult>>

vars == <<pageVars, rowVars>>

NoPage ==
  /\ pieces = <<>>
  /\ linebreak = <<"\n">>
  /\ page = <<>>
  /\ pc = "start"
  /\ lines = <<>>
  /\ idx = 0
  /\ out = <<>>
  /\ parsed = 0
  /\ requests = 0
  /\ stops = 0
  /\ error = None

NoLines ==
  /\ kind = "none"
  /\ cells = NoCells
  /\ otherCells = NoCells
  /\ line = <<>>
  /\ other = <<>>
  /\ result = None
  /\ otherResult = None

Init ==
  /\ pieces \in {h \o b : h \in PageHeads, b \in SeqsUpTo(BodyLines, MaxBody)}
  /\ linebreak \in LineBreaks
  /\ page = Join(pieces, linebreak)
  /\ pc = "start"
  /\ lines = <<>>
  /\ idx = 0
  /\ out = <<>>
  /\ parsed = 0
  /\ requests = 0
  /\ stops = 0
  /\ error = None
  /\ NoLines

\* Mutant: a list is built, every row parsed before from_page returns.
ParsedOnReturnEager(ls) == Len(Drain(ls, 0))

\* How many lines the iterator has parsed when from_page returns it: none, a
\* generator expression runs no part of its body until it is asked for a row.
ParsedOnReturn(ls) == 0

\* from_page(page): the page is matched and the match split into lines; no
\* line is classified or parsed yet.  It can be called again once the iterator
\* of the call before has stopped.
from_page ==
  /\ pc \in {"start", "exhausted"}
  /\ pc' = "open"
  /\ lines' = TableLines(page)
  /\ idx' = 0
  /\ out' = <<>>
  /\ parsed' = ParsedOnReturn(lines')
  /\ requests' = 0
  /\ stops' = 0
  /\ error' = None
  /\ UNCHANGED <<pieces, linebreak, page, rowVars>>

\* next(rows): the iterator skips the lines _filter_line rejects, parses the
\* first one it lets through and yields the row; with no such line left it
\* stops, and it stays stopped.  An error of _line_to_row ends it too.
NextRow ==
  /\ pc \in {"open", "exhausted", "raised"}
  /\ stops < MaxStops
  /\ requests' = requests + 1
  /\ LET j == NextUnfiltered(lines, idx)
     IN  IF j > Len(lines)
           THEN /\ pc' = IF pc = "open" THEN "exhausted" ELSE pc
                /\ idx' = Len(lines)
                /\ stops' = stops + 1
                /\ UNCHANGED <<out, parsed, error>>
           ELSE LET r == _line_to_row(lines[j])
                IN  /\ parsed' = parsed + 1
                    /\ stops' = stops
                    /\ IF r.raised
                         THEN /\ pc' = "raised"
                              /\ idx' = Len(lines)
                              /\ error' = r.message
                              /\ out' = out
                         ELSE /\ pc' = pc
                              /\ idx' = j
                              /\ error' = error
                              /\ out' = Append(out, r.value[1])
  /\ UNCHANGED <<pieces, linebreak, page, lines, rowVars>>

Next == from_page \/ NextRow

Spec == Init /\ [][Next]_vars

InitRow ==
  /\ NoPage
  /\ result = None
  /\ otherResult = None
  /\ \/ /\ kind = "padded"
        /\ cells \in Cells
        /\ otherCells = cells
        /\ \E base \in BasePads, extra \in ExtraPads :
             /\ line = Render(cells, base)
             /\ other = Render(cells, AddPad(base, extra))
     \/ /\ kind = "pair"
        /\ cells \in Cells
        /\ otherCells \in Cells
        /\ line = Render(cells, NoPad)
        /\ other = Render(otherCells, NoPad)
     \/ /\ kind = "broken"
        /\ cells = NoCells
        /\ otherCells = NoCells
        /\ line \in BrokenLines
        /\ other = line

\* A direct call _line_to_row(line).
CallOnLine ==
  /\ result = None
  /\ result' = Some(_line_to_row(line))
  /\ UNCHANGED <<pageVars, kind, cells, otherCells, line, other, otherResult>>

\* A direct call _line_to_row(other).
CallOnOther ==
  /\ result # None
  /\ otherResult = None
  /\ otherResult' = Some(_line_to_row(other))
  /\ UNCHANGED <<pageVars, kind, cells, otherCells, line, other, result>>

NextRowCall == CallOnLine \/ CallOnOther

SpecRow == InitRow /\ [][NextRowCall]_vars

(***************************************************************************)
(* What the claims speak of.                                               *)
(***************************************************************************)
\* The rows of the pages, well formed by construction, and what each says.
WellFormedRows == {RowLineA, RowLineB}

IsWellFormedRow(l) == l \in WellFormedRows

RowA == TableRow(1, <<"a">>, Navlink(<<"x">>, None))

RowB == TableRow(2, <<"b", "-", "a">>, Navlink(<<"x", " ", "y">>, Some(<<"a", "/", "b">>)))

\* _line_to_row on each line a page is written from, computed once.
RowParse == [l \in BodyLines \cup {HeaderLine, FillerLine} |-> _line_to_row(l)]

\* The parses of the well-formed rows among the lines ls, in their order.
ParsedRows(ls) ==
  LET rs == SelectSeq(ls, IsWellFormedRow)
  IN  [i \in 1..Len(rs) |-> RowParse[rs[i]].value[1]]

\* Whether some substring of p matches the header grammar.
HasHeader(p) ==
  \E k \in 0..Len(p) : MatchFrom(_TABLE_HEADER_PATTERN, p, 1, k, NoCaps).ok

\* C1: a page with no substring matching the header grammar gives an empty
\* iterator: it yields no row, every request ends in StopIteration, no line is
\* parsed and no error is raised.
C1_NoHeaderNoRows ==
  (pc # "start" /\ ~HasHeader(page)) =>
    /\ out = <<>>
    /\ parsed = 0
    /\ stops = requests
    /\ pc # "raised"
    /\ error = None

\* C1 witness: a page of two rows and no header has been asked for a row.
C1_Witness ==
  /\ pc = "exhausted"
  /\ pieces = <<RowLineA, RowLineB>>
  /\ ~HasHeader(page)
  /\ requests >= 1
  /\ out = <<>>

\* C2: the page header + filler + N row lines yields exactly the N parses, in
\* the order of the lines: what has been yielded so far is a prefix of them,
\* and all of them once the iterator has stopped.
IsTableOfRows ==
  /\ Len(pieces) >= 2
  /\ pieces[1] = HeaderLine
  /\ pieces[2] = FillerLine
  /\ \A i \in 3..Len(pieces) : pieces[i] \in WellFormedRows

C2_RoundTrip ==
  (pc # "start" /\ IsTableOfRows) =>
    /\ pc # "raised"
    /\ Len(out) <= Len(pieces) - 2
    /\ \A i \in 1..Len(out) : out[i] = RowParse[pieces[i + 2]].value[1]
    /\ pc = "exhausted" => Len(out) = Len(pieces) - 2

\* C2 witness: three rows after header and filler came out in their order.
C2_Witness ==
  /\ pc = "exhausted"
  /\ pieces = <<HeaderLine, FillerLine, RowLineA, RowLineB, RowLineA>>
  /\ out = <<RowA, RowB, RowA>>

\* C3: on a page with a header, the lines that are no rows change nothing:
\* the rows yielded are those of the page with these lines taken out, which
\* are the parses of the well-formed rows in their order, and no error is
\* raised for the noise.  Checked when the iterator stops.
IsNoise(l) == l \in {ProseLine, BlankLine, MalformedLine}

IsNotNoise(l) == ~IsNoise(l)

C3_NoiseIgnored ==
  (pc = "exhausted" /\ stops = 1 /\ \E i \in 1..Len(pieces) : pieces[i] = HeaderLine) =>
    LET clean == list_from_page(Join(SelectSeq(pieces, IsNotNoise), linebreak))
    IN  /\ Len(out) = Len(clean)
        /\ \A i \in 1..Len(out) : ~clean[i].raised /\ out[i] = clean[i].value[1]
        /\ out = ParsedRows(pieces)
        /\ error = None

\* C3 witness: a blank line stood between two rows.
C3_Witness ==
  /\ pc = "exhausted"
  /\ stops = 1
  /\ pieces = <<HeaderLine, FillerLine, RowLineA, BlankLine, RowLineB>>
  /\ out = <<RowA, RowB>>

\* C8: the iterator is lazy and single-pass.  When from_page returns, no line
\* has been parsed; every row parsed has been yielded to a request, so the
\* k-th row is parsed by the k-th request that yields; once the iterator has
\* stopped, a further request yields no row and parses nothing.
C8_Lazy ==
  /\ (pc = "open" /\ requests = 0) => (parsed = 0 /\ out = <<>>)
  /\ pc \in {"open", "exhausted"} =>
       /\ parsed = Len(out)
       /\ Len(out) + stops = requests

C8_SinglePass ==
  (pc = "exhausted" /\ pc' = "exhausted") => (out' = out /\ parsed' = parsed)

C8_LazySinglePass == [](C8_Lazy) /\ [][C8_SinglePass]_vars

\* C8 witness: an iterator that had yielded three rows was asked again after
\* it stopped.
C8_Witness ==
  /\ pc = "exhausted"
  /\ stops = 2
  /\ requests = 5
  /\ out = <<RowA, RowB, RowA>>

\* C9: consuming the iterator never raises NavigationTableParseError.
C9_NeverRaises == pc # "raised" /\ error = None

\* C9 witness: a page with a header, prose and a malformed row was consumed to
\* the end.
C9_Witness ==
  /\ pc = "exhausted"
  /\ pieces = <<ProseLine, HeaderLine, MalformedLine, RowLineB>>
  /\ out = <<RowB>>

\* C10: on a page with a header the iterator runs over all the lines of the
\* page, and yields the parse of every row line of the page, in page order,
\* the rows before the header too.
C10_WholePage ==
  (pc # "start" /\ \E i \in 1..Len(pieces) : pieces[i] = HeaderLine) =>
    /\ lines = splitlines(page)
    /\ pc = "exhausted" => out = ParsedRows(pieces)

\* C10 witness: the row before the header came out first.
C10_Witness ==
  /\ pc = "exhausted"
  /\ pieces = <<RowLineA, HeaderLine, FillerLine, RowLineB>>
  /\ out = <<RowA, RowB>>

(***************************************************************************)
(* Direct calls of _line_to_row.                                           *)
(***************************************************************************)
\* The row a well-formed line written from the cells c stands for.
RowOfCells(c) ==
  TableRow(int(c.level), c.path,
           Navlink(c.title, IF c.link = <<>> THEN None ELSE Some(c.link)))

NoOuterSpaces(s) == s = <<>> \/ (s[1] # " " /\ s[Len(s)] # " ")

\* C4, without its last part: spaces added at the places where the row
\* grammar allows whitespace do not change the row.  (Holds of the code.)
PaddingChangesNothing ==
  (kind = "padded" /\ result # None /\ otherResult # None) =>
    /\ ~result[1].raised
    /\ otherResult[1] = result[1]
    /\ result[1].value[1].level = int(cells.level)
    /\ result[1].value[1].path = cells.path
    /\ result[1].value[1].navlink.link = RowOfCells(cells).navlink.link

\* C4: spaces added around the pipes and the cells do not change the row, and
\* title and link carry no leading or trailing space.
C4_WhitespaceInsensitive ==
  (kind = "padded" /\ result # None /\ otherResult # None) =>
    /\ ~result[1].raised
    /\ otherResult[1] = result[1]
    /\ NoOuterSpaces(result[1].value[1].navlink.title)
    /\ result[1].value[1].navlink.link # None =>
         NoOuterSpaces(result[1].value[1].navlink.link[1])

\* What the call on l returned, against the link text the row pattern matched
\* in l and against the link text c.link that l was written with.
LinkAsWritten(r, l, c) ==
  LET match == re_match(_ROW_PATTERN, l)
      text  == group(match, l, 4)
  IN  /\ match.ok
      /\ ~r.raised
      /\ text = c.link
      /\ r.value[1].navlink.link = None <=> text = <<>>
      /\ text # <<>> => r.value[1].navlink.link = Some(text)

\* C5: the link of the row is None exactly when the link text the row pattern
\* matched is the empty string, and is that text unchanged otherwise: [x]()
\* gives None and [x](a/b) gives a/b.
C5_LinkOmission ==
  /\ (kind \in {"padded", "pair"} /\ result # None) =>
       LinkAsWritten(result[1], line, cells)
  /\ (kind \in {"padded", "pair"} /\ otherResult # None) =>
       LinkAsWritten(otherResult[1], other, otherCells)

\* C5 witness: [x]() gave no link and [x](a/b) gave a/b.
C5_Witness ==
  /\ kind = "pair"
  /\ line = <<"|", "1", "|", "a", "|", "[", "x", "]", "(", ")", "|">>
  /\ other = <<"|", "1", "|", "a", "|", "[", "x", "]", "(", "a", "/", "b", ")", "|">>
  /\ result # None /\ result[1].value[1].navlink.link = None
  /\ otherResult # None /\ otherResult[1].value[1].navlink.link = Some(<<"a", "/", "b">>)

\* What repr wrote between the quotes, read back.
RECURSIVE Unescape(_)
Unescape(s) ==
  IF s = <<>> THEN <<>>
  ELSE IF s[1] # "\\" THEN <<s[1]>> \o Unescape(Tail(s))
  ELSE IF s[2] = "n" THEN <<"\n">> \o Unescape(SubSeq(s, 3, Len(s)))
  ELSE IF s[2] = "t" THEN <<"\t">> \o Unescape(SubSeq(s, 3, Len(s)))
  ELSE IF s[2] = "r" THEN <<"\r">> \o Unescape(SubSeq(s, 3, Len(s)))
  ELSE <<"\f">> \o Unescape(SubSeq(s, 5, Len(s)))

\* The message ends with the line l in quotes: read back it is l, and it is l
\* character for character when l has no control character.
CarriesLine(msg, l) ==
  LET quoted == SubSeq(msg, Len(MessagePrefix) + 1, Len(msg))
      inner  == SubSeq(quoted, 2, Len(quoted) - 1)
  IN  /\ Len(quoted) >= 2
      /\ quoted[1] \in {"'", "\""}
      /\ quoted[Len(quoted)] = quoted[1]
      /\ Unescape(inner) = l
      /\ (\A i \in 1..Len(l) : l[i] \notin {"\n", "\t", "\r", "\f"}) => inner = l

\* C6: called on a line that breaks the row grammar, _line_to_row returns no
\* row and raises NavigationTableParseError with a message that carries the
\* line; called on a well-formed line it returns a row and raises nothing.
OutcomeFits(r, l) ==
  IF kind = "broken"
    THEN /\ r.raised
         /\ r.exception = "NavigationTableParseError"
         /\ r.value = None
         /\ r.message # None
         /\ CarriesLine(r.message[1], l)
    ELSE /\ ~r.raised
         /\ r.value # None
         /\ r.message = None

C6_ErrorIffNoMatch ==
  /\ result # None => OutcomeFits(result[1], line)
  /\ otherResult # None => OutcomeFits(otherResult[1], other)

\* C6 witness: the call on a line with a tab and a quote has raised.
C6_Witness ==
  /\ kind = "broken"
  /\ line = <<"|", "1", "|", "a", "|", "[", "x", "]", "\t", "(", "'", ")", "|">>
  /\ result # None
  /\ result[1].raised

\* C7 as claimed: two well-formed lines that differ in the content of a cell
\* give two different rows.
C7_InjectiveOnCells ==
  (kind = "pair" /\ result # None /\ otherResult # None /\ cells # otherCells) =>
    result[1] # otherResult[1]

\* C7 as amended: two well-formed lines give the same row exactly when their
\* level cells are the same number and their path, title and link texts are
\* the same; level cells that differ only in leading zeros give the same row.
C7_InjectiveUpToLevelValue ==
  (kind = "pair" /\ result # None /\ otherResult # None) =>
    /\ ~result[1].raised /\ ~otherResult[1].raised
    /\ result[1].value[1] = RowOfCells(cells)
    /\ result[1] = otherResult[1] <=>
         /\ int(cells.level) = int(otherCells.level)
         /\ cells.path = otherCells.path
         /\ cells.title = otherCells.title
         /\ cells.link = otherCells.link

\* C7 witness: levels 1 and 01, all else equal, gave the same row.
C7_Witness ==
  /\ kind = "pair"
  /\ cells.level = <<"1">>
  /\ otherCells.level = <<"0", "1">>
  /\ cells # otherCells
  /\ result # None
  /\ otherResult = result

=============================================================================
